---- MODULE Spec2Model ----
(***************************************************************************)
(* A state-machine model of TheBlackjack.py: Card, Deck, Hand, Player and  *)
(* BlackjackGame.play_round with its player turn, dealer turn and          *)
(* settlement.                                                             *)
(*                                                                         *)
(* Money is kept in whole dollars.  The bets the model places are even     *)
(* numbers of dollars, so that bet * 2.5 is a whole number and the float   *)
(* arithmetic of the program is exact on every amount of the model.        *)
(***************************************************************************)
EXTENDS Integers, Sequences, FiniteSets, TLC

(***************************************************************************)
(* Bounds of the model.                                                    *)
(***************************************************************************)
\* random.shuffle is modelled by the shuffles that put a chosen sequence of
\* TopLen cards on the drawing end of the deck
TopLen == 5
\* number of play_round calls followed in one behaviour
MaxRounds == 2
\* deck counts a Deck is built with in the deck specification
MaxDecks == 2
\* draw_card calls followed after the implicit refill of an exhausted deck
MaxExtraDraws == 3
\* invalid answers followed at the prompts of one player turn
MaxInvalid == 1
\* cards added to a hand in the hand specification
MaxHandLen == 4

\* ranks the chosen drawing end of a shuffle is made of
TopRanks == {1, 6, 10}
\* bet amounts handed to play_round
BetAmounts == {10, 1002}
\* cards left in the shoe when a round starts on a used BlackjackGame
ShoeLeft == {4}
\* ranks of the cards added to a hand in the hand specification
HandRanks == {1, 2, 5, 9, 10, 13}
\* answers typed at the "(H)it or (S)tand" prompt
Answers == {"h", "HIT", "s", "Stand", "x", ""}

(***************************************************************************)
(* Card and CardSuit                                                       *)
(***************************************************************************)
CardSuit == <<"HEARTS", "DIAMONDS", "CLUBS", "SPADES">>

Ranks == 1..13

Card(rank, suit) == [rank |-> rank, suit |-> suit]

\* Card.value
value(card) ==
    IF card.rank > 10 THEN 10
    ELSE IF card.rank = 1 THEN 11
    ELSE card.rank

(***************************************************************************)
(* Deck                                                                    *)
(***************************************************************************)
\* Deck.__init__ default of num_decks
DefaultNumDecks == 6

\* the list comprehension of Deck.reset, before the shuffle:
\* for suit in CardSuit, for rank in range(1, 14), for _ in range(num_decks)
OrderedDeck(n) ==
    [i \in 1..(4 * 13 * n) |->
        Card((((i - 1) \div n) % 13) + 1, CardSuit[((i - 1) \div (13 * n)) + 1])]

\* the inputs of the shuffle of a deck of n decks: the ranks wanted on the
\* drawing end, first drawn first
Tops(n) ==
    {top \in [1..TopLen -> TopRanks] :
        \A r \in TopRanks : Cardinality({j \in 1..TopLen : top[j] = r}) <= 4 * n}

\* index in deck of the k-th card of rank r
NthOfRank(deck, r, k) ==
    SelectSeq([i \in 1..Len(deck) |-> i], LAMBDA i : deck[i].rank = r)[k]

\* index in deck of the card that the shuffle chosen by top puts at the j-th draw
TopIndex(deck, top, j) ==
    NthOfRank(deck, top[j], Cardinality({i \in 1..j : top[i] = top[j]}))

\* random.shuffle(self.cards): a permutation of the list; the one chosen by top
\* moves the cards named by top to the end of the list (the end pop() draws
\* from) and keeps the others in their order
shuffle(deck, top) ==
    LET N == Len(deck)
        L == Len(top)
        picks == [j \in 1..L |-> TopIndex(deck, top, j)]
        picked == {picks[j] : j \in 1..L}
        keep == SelectSeq([i \in 1..N |-> i], LAMBDA i : i \notin picked)
    IN [k \in 1..N |->
          IF k <= N - L THEN deck[keep[k]]
          ELSE deck[picks[N - k + 1]]]

\* the deck counts of the model: those of the deck specification and the default
DeckCounts == (1..MaxDecks) \cup {DefaultNumDecks}

\* the shuffles of a full deck, tabulated by deck count
DeckTops ==
    LET tops == [n \in DeckCounts |-> Tops(n)]
    IN tops @@ tops

\* the shuffled full decks, tabulated by deck count and shuffle; f @@ f is f
\* with every value computed
FullDecks ==
    LET shuffled ==
            [n \in DeckCounts |->
                LET decks == [top \in Tops(n) |->
                                 SubSeq(shuffle(OrderedDeck(n), top), 1, 4 * 13 * n)]
                IN decks @@ decks]
    IN shuffled @@ shuffled

\* Deck.reset
reset(n, top) == FullDecks[n][top]

\* draw_card without the refill of an empty deck
DrawFrom_NoRefill(cards, n, top) == cards

\* Deck.draw_card, lines 62-63: the list the draw works on, refilled when empty
DrawFrom(cards, n, top) == IF cards = <<>> THEN reset(n, top) ELSE cards

\* what cards.pop() gives on an empty list: no card, an IndexError is raised
NoCard == [rank |-> 0, suit |-> "IndexError"]

\* Deck.draw_card, line 64: the card returned, cards.pop()
Drawn(cards, n, top) ==
    LET c == DrawFrom(cards, n, top)
    IN IF c = <<>> THEN NoCard ELSE c[Len(c)]

\* Deck.draw_card, line 64: the cards left in the deck
AfterDraw(cards, n, top) ==
    LET c == DrawFrom(cards, n, top)
    IN IF c = <<>> THEN c ELSE SubSeq(c, 1, Len(c) - 1)

(***************************************************************************)
(* Hand                                                                    *)
(***************************************************************************)
RECURSIVE SumValues(_)
SumValues(cards) ==
    IF cards = <<>> THEN 0
    ELSE value(Head(cards)) + SumValues(Tail(cards))

\* the loop over the aces of Hand.calculate_score
RECURSIVE AddAces(_, _)
AddAces(score, k) ==
    IF k = 0 THEN score
    ELSE IF score + 11 <= 21 THEN AddAces(score + 11, k - 1)
    ELSE AddAces(score + 1, k - 1)

\* a score taken in one pass over the cards in hand order: an ace counts 11 when
\* that fits at the moment it is met
RECURSIVE ScoreInOrder(_, _)
ScoreInOrder(cards, total) ==
    IF cards = <<>> THEN total
    ELSE IF Head(cards).rank = 1
         THEN ScoreInOrder(Tail(cards), IF total + 11 <= 21 THEN total + 11 ELSE total + 1)
         ELSE ScoreInOrder(Tail(cards), total + value(Head(cards)))

calculate_score_InOrder(cards) == ScoreInOrder(cards, 0)

\* Hand.calculate_score
calculate_score(cards) ==
    LET non_aces == SelectSeq(cards, LAMBDA card : card.rank # 1)
        aces == SelectSeq(cards, LAMBDA card : card.rank = 1)
    IN AddAces(SumValues(non_aces), Len(aces))

\* is_blackjack without the test of the number of cards
is_blackjack_AnyLen(cards) == calculate_score(cards) = 21

\* Hand.is_blackjack
is_blackjack(cards) == Len(cards) = 2 /\ calculate_score(cards) = 21

(***************************************************************************)
(* State                                                                   *)
(***************************************************************************)
VARIABLES
    num_decks,      \* Deck.num_decks
    cards,          \* Deck.cards, the last element is the next card drawn
    player_hand,    \* player.hand.cards
    dealer_hand,    \* dealer.hand.cards
    balance,        \* player.balance
    bet_amount,     \* the argument of the running play_round
    pc,             \* position in play_round: Idle before the first call, then
                    \* Dealing, PlayerTurn, DealerTurn, Resolution, Done; Quit
                    \* after main left its loop
    result,         \* the value play_round returned, "" while none
    player_result,  \* what _player_turn returned, "" while none
    dealer_result,  \* what _dealer_turn returned, "" while none
    console,        \* the last message printed about the player's answer
    answer,         \* the local variable action of the running _player_turn: the
                    \* lowered answer last read, NoAnswer while no _player_turn
                    \* runs or none was read
    \* observers, not state of the program
    rounds,         \* play_round calls so far
    balance_before, \* balance when the running play_round was called
    payments,       \* credits to the balance made by the running play_round
    prompts,        \* answers read by the running _player_turn
    invalid,        \* invalid answers read by the running _player_turn
    draws,          \* draw_card calls since the deck was built (deck specification)
    returned,       \* cards draw_card returned since the deck was built
    refills,        \* resets made by draw_card since the deck was built
    score,          \* the last value calculate_score returned for player_hand in
                    \* the hand specification, -1 while none
    blackjack,      \* the last value is_blackjack returned for player_hand in the
                    \* hand specification ("True" or "False"), "" while none
    bet_input       \* the text main last read at the bet prompt, "" while none

deckVars == <<num_decks, cards>>
deckObs == <<draws, returned, refills>>
handObs == <<score, blackjack>>
gameVars == <<player_hand, dealer_hand, balance, bet_amount, pc, result,
              player_result, dealer_result, console, answer>>
gameObs == <<rounds, balance_before, payments, prompts, invalid>>
vars == <<num_decks, cards, player_hand, dealer_hand, balance, bet_amount, pc,
          result, player_result, dealer_result, console, answer, rounds,
          balance_before, payments, prompts, invalid, draws, returned, refills,
          score, blackjack, bet_input>>

\* every card of a deck
AllCards == {Card(r, CardSuit[s]) : r \in Ranks, s \in 1..4}

\* the count of returned cards before the first draw
NoneReturned == [c \in AllCards \cup {NoCard} |-> 0]

\* Player.__init__ default of balance
DefaultBalance == 1000

\* the shuffles draw_card can choose from: one is chosen only when the deck is
\* empty; <<>> stands for no shuffle
RefillTops == IF cards = <<>> THEN DeckTops[num_decks] ELSE {<<>>}

\* no answer read yet by the running _player_turn
NoAnswer == "<none>"

\* str.lower on the answers
lower(s) ==
    CASE s = "HIT" -> "hit"
      [] s = "Stand" -> "stand"
      [] OTHER -> s

(***************************************************************************)
(* BlackjackGame                                                           *)
(***************************************************************************)
\* Player(name) and BlackjackGame(player): a full shuffled deck of 6 decks, a
\* player with the default balance, empty hands
Init ==
    /\ num_decks = DefaultNumDecks
    /\ \E top \in Tops(DefaultNumDecks) : cards = reset(DefaultNumDecks, top)
    /\ player_hand = <<>>
    /\ dealer_hand = <<>>
    /\ balance = DefaultBalance
    /\ bet_amount = 0
    /\ pc = "Idle"
    /\ result = ""
    /\ player_result = ""
    /\ dealer_result = ""
    /\ console = ""
    /\ answer = NoAnswer
    /\ rounds = 0
    /\ balance_before = DefaultBalance
    /\ payments = 0
    /\ prompts = 0
    /\ invalid = 0
    /\ draws = 0
    /\ returned = NoneReturned
    /\ refills = 0
    /\ score = -1
    /\ blackjack = ""
    /\ bet_input = ""

\* float("nan"): a value outside the amounts of the model
NaN == -(2^30)

isnan(x) == x = NaN

\* the comparisons of floats: False when an operand is nan
float_gt(a, b) == ~isnan(a) /\ ~isnan(b) /\ a > b
float_le(a, b) == ~isnan(a) /\ ~isnan(b) /\ a <= b
float_eq(a, b) == ~isnan(a) /\ ~isnan(b) /\ a = b

\* the sum and the difference of floats: nan when an operand is nan
float_add(a, b) == IF isnan(a) \/ isnan(b) THEN NaN ELSE a + b
float_sub(a, b) == IF isnan(a) \/ isnan(b) THEN NaN ELSE a - b

\* Player.bet: whether the bet is accepted
bet_ok(amount, bal) == ~float_gt(amount, bal)

\* Player.bet accepting the bet without the debit
bet_balance_NoDebit(amount, bal) == bal

\* Player.bet debiting before it compares
bet_balance_Always(amount, bal) == bal - amount

\* Player.bet: the balance it leaves
bet_balance(amount, bal) ==
    IF float_gt(amount, bal) THEN bal ELSE float_sub(bal, amount)

\* _pay_winnings with the multiplier of a plain win whatever it is given
winnings_Double(amount, halves) == amount * 2

\* BlackjackGame._pay_winnings: the winnings, multiplier given in halves
\* (5 for 2.5, 4 for 2)
winnings(amount, halves) ==
    IF isnan(amount) THEN NaN ELSE (amount * halves) \div 2

\* a play_round that places the bet first and resets the hands only when it is
\* accepted
PlayRound_BetFirst(amount) ==
    /\ pc \in {"Idle", "Done"}
    /\ rounds < MaxRounds
    /\ rounds' = rounds + 1
    /\ player_hand' = IF bet_ok(amount, balance) THEN <<>> ELSE player_hand
    /\ dealer_hand' = IF bet_ok(amount, balance) THEN <<>> ELSE dealer_hand
    /\ bet_amount' = amount
    /\ balance_before' = balance
    /\ balance' = bet_balance(amount, balance)
    /\ IF bet_ok(amount, balance)
       THEN pc' = "Dealing" /\ result' = ""
       ELSE pc' = "Done" /\ result' = "Insufficient funds"
    /\ player_result' = ""
    /\ dealer_result' = ""
    /\ console' = ""
    /\ answer' = NoAnswer
    /\ payments' = 0
    /\ prompts' = 0
    /\ invalid' = 0
    /\ UNCHANGED deckVars
    /\ UNCHANGED deckObs
    /\ UNCHANGED handObs
    /\ UNCHANGED bet_input

\* play_round, lines 131-137: reset the hands and place the bet
PlayRound(amount) ==
    /\ pc \in {"Idle", "Done"}
    /\ rounds < MaxRounds
    /\ rounds' = rounds + 1
    /\ player_hand' = <<>>
    /\ dealer_hand' = <<>>
    /\ bet_amount' = amount
    /\ balance_before' = balance
    /\ balance' = bet_balance(amount, balance)
    /\ IF bet_ok(amount, balance)
       THEN pc' = "Dealing" /\ result' = ""
       ELSE pc' = "Done" /\ result' = "Insufficient funds"
    /\ player_result' = ""
    /\ dealer_result' = ""
    /\ console' = ""
    /\ answer' = NoAnswer
    /\ payments' = 0
    /\ prompts' = 0
    /\ invalid' = 0
    /\ UNCHANGED deckVars
    /\ UNCHANGED deckObs
    /\ UNCHANGED handObs
    /\ UNCHANGED bet_input

\* an initial deal that gives the player both cards before the dealer
DealCard_PlayerBoth ==
    /\ pc = "Dealing"
    /\ Len(dealer_hand) < 2
    /\ \E top \in RefillTops :
         /\ IF Len(player_hand) < 2
            THEN /\ player_hand' = Append(player_hand, Drawn(cards, num_decks, top))
                 /\ dealer_hand' = dealer_hand
            ELSE /\ dealer_hand' = Append(dealer_hand, Drawn(cards, num_decks, top))
                 /\ player_hand' = player_hand
         /\ cards' = AfterDraw(cards, num_decks, top)
    /\ UNCHANGED <<num_decks, balance, bet_amount, pc, result, player_result,
                   dealer_result, console>>
    /\ UNCHANGED gameObs
    /\ UNCHANGED deckObs
    /\ UNCHANGED handObs
    /\ UNCHANGED answer
    /\ UNCHANGED bet_input

\* play_round, lines 140-142: one draw of the initial deal, the player first
DealCard ==
    /\ pc = "Dealing"
    /\ Len(dealer_hand) < 2
    /\ \E top \in RefillTops :
         /\ IF Len(player_hand) = Len(dealer_hand)
            THEN /\ player_hand' = Append(player_hand, Drawn(cards, num_decks, top))
                 /\ dealer_hand' = dealer_hand
            ELSE /\ dealer_hand' = Append(dealer_hand, Drawn(cards, num_decks, top))
                 /\ player_hand' = player_hand
         /\ cards' = AfterDraw(cards, num_decks, top)
    /\ UNCHANGED <<num_decks, balance, bet_amount, pc, result, player_result,
                   dealer_result, console>>
    /\ UNCHANGED gameObs
    /\ UNCHANGED deckObs
    /\ UNCHANGED handObs
    /\ UNCHANGED answer
    /\ UNCHANGED bet_input

\* play_round, lines 145-149: the immediate Blackjacks
CheckBlackjack ==
    /\ pc = "Dealing"
    /\ Len(dealer_hand) = 2
    /\ IF is_blackjack(player_hand)
       THEN IF ~is_blackjack(dealer_hand)
            THEN /\ balance' = float_add(balance, winnings(bet_amount, 5))
                 /\ payments' = payments + 1
                 /\ result' = "Win"
                 /\ pc' = "Done"
            ELSE /\ result' = "Push"
                 /\ pc' = "Done"
                 /\ UNCHANGED <<balance, payments>>
       ELSE /\ pc' = "PlayerTurn"
            /\ UNCHANGED <<balance, payments, result>>
    /\ UNCHANGED deckVars
    /\ UNCHANGED <<player_hand, dealer_hand, bet_amount, player_result,
                   dealer_result, console>>
    /\ UNCHANGED <<rounds, balance_before, prompts, invalid>>
    /\ UNCHANGED deckObs
    /\ UNCHANGED handObs
    /\ UNCHANGED answer
    /\ UNCHANGED bet_input

\* _player_turn, lines 171-172: no prompt at 21
PlayerAt21 ==
    /\ pc = "PlayerTurn"
    /\ calculate_score(player_hand) = 21
    /\ player_result' = "Stand"
    /\ answer' = NoAnswer
    /\ pc' = "DealerTurn"
    /\ UNCHANGED deckVars
    /\ UNCHANGED <<player_hand, dealer_hand, balance, bet_amount, result,
                   dealer_result, console>>
    /\ UNCHANGED gameObs
    /\ UNCHANGED deckObs
    /\ UNCHANGED handObs
    /\ UNCHANGED bet_input

\* a hit that reports a bust only above 22
PlayerHit_BustAbove22(action) ==
    /\ pc = "PlayerTurn"
    /\ calculate_score(player_hand) # 21
    /\ lower(action) \in {"h", "hit"}
    /\ prompts' = prompts + 1
    /\ \E top \in RefillTops :
         /\ player_hand' = Append(player_hand, Drawn(cards, num_decks, top))
         /\ cards' = AfterDraw(cards, num_decks, top)
    /\ answer' = IF calculate_score(player_hand') > 22 THEN NoAnswer ELSE lower(action)
    /\ IF calculate_score(player_hand') > 22
       THEN /\ console' = "busted"
            /\ player_result' = "Bust"
            /\ result' = "Lose"
            /\ pc' = "Done"
       ELSE UNCHANGED <<console, player_result, result, pc>>
    /\ UNCHANGED <<num_decks, dealer_hand, balance, bet_amount, dealer_result>>
    /\ UNCHANGED <<rounds, balance_before, payments, invalid>>
    /\ UNCHANGED deckObs
    /\ UNCHANGED handObs
    /\ UNCHANGED bet_input

\* a hit offered at 21 too
PlayerHit_At21(action) ==
    /\ pc = "PlayerTurn"
    /\ lower(action) \in {"h", "hit"}
    /\ prompts' = prompts + 1
    /\ \E top \in RefillTops :
         /\ player_hand' = Append(player_hand, Drawn(cards, num_decks, top))
         /\ cards' = AfterDraw(cards, num_decks, top)
    /\ answer' = IF calculate_score(player_hand') > 21 THEN NoAnswer ELSE lower(action)
    /\ IF calculate_score(player_hand') > 21
       THEN /\ console' = "busted"
            /\ player_result' = "Bust"
            /\ result' = "Lose"
            /\ pc' = "Done"
       ELSE UNCHANGED <<console, player_result, result, pc>>
    /\ UNCHANGED <<num_decks, dealer_hand, balance, bet_amount, dealer_result>>
    /\ UNCHANGED <<rounds, balance_before, payments, invalid>>
    /\ UNCHANGED deckObs
    /\ UNCHANGED handObs
    /\ UNCHANGED bet_input

\* _player_turn, lines 175-184: the answer is a hit
PlayerHit(action) ==
    /\ pc = "PlayerTurn"
    /\ calculate_score(player_hand) # 21
    /\ lower(action) \in {"h", "hit"}
    /\ prompts' = prompts + 1
    /\ \E top \in RefillTops :
         /\ player_hand' = Append(player_hand, Drawn(cards, num_decks, top))
         /\ cards' = AfterDraw(cards, num_decks, top)
    /\ answer' = IF calculate_score(player_hand') > 21 THEN NoAnswer ELSE lower(action)
    /\ IF calculate_score(player_hand') > 21
       THEN /\ console' = "busted"
            /\ player_result' = "Bust"
            /\ result' = "Lose"
            /\ pc' = "Done"
       ELSE UNCHANGED <<console, player_result, result, pc>>
    /\ UNCHANGED <<num_decks, dealer_hand, balance, bet_amount, dealer_result>>
    /\ UNCHANGED <<rounds, balance_before, payments, invalid>>
    /\ UNCHANGED deckObs
    /\ UNCHANGED handObs
    /\ UNCHANGED bet_input

\* _player_turn, lines 185-186: the answer is a stand
PlayerStand(action) ==
    /\ pc = "PlayerTurn"
    /\ calculate_score(player_hand) # 21
    /\ lower(action) \notin {"h", "hit"}
    /\ lower(action) \in {"s", "stand"}
    /\ prompts' = prompts + 1
    /\ answer' = NoAnswer
    /\ player_result' = "Stand"
    /\ pc' = "DealerTurn"
    /\ UNCHANGED deckVars
    /\ UNCHANGED <<player_hand, dealer_hand, balance, bet_amount, result,
                   dealer_result, console>>
    /\ UNCHANGED <<rounds, balance_before, payments, invalid>>
    /\ UNCHANGED deckObs
    /\ UNCHANGED handObs
    /\ UNCHANGED bet_input

\* any other answer taken for a stand
PlayerInvalid_Stands(action) ==
    /\ pc = "PlayerTurn"
    /\ calculate_score(player_hand) # 21
    /\ lower(action) \notin {"h", "hit"}
    /\ lower(action) \notin {"s", "stand"}
    /\ invalid < MaxInvalid
    /\ invalid' = invalid + 1
    /\ prompts' = prompts + 1
    /\ answer' = lower(action)
    /\ console' = "Invalid input"
    /\ UNCHANGED deckVars
    /\ player_result' = "Stand"
    /\ pc' = "DealerTurn"
    /\ UNCHANGED <<player_hand, dealer_hand, balance, bet_amount, result,
                   dealer_result>>
    /\ UNCHANGED <<rounds, balance_before, payments>>
    /\ UNCHANGED deckObs
    /\ UNCHANGED handObs
    /\ UNCHANGED bet_input

\* _player_turn, lines 187-188: any other answer
PlayerInvalid(action) ==
    /\ pc = "PlayerTurn"
    /\ calculate_score(player_hand) # 21
    /\ lower(action) \notin {"h", "hit"}
    /\ lower(action) \notin {"s", "stand"}
    /\ invalid < MaxInvalid
    /\ invalid' = invalid + 1
    /\ prompts' = prompts + 1
    /\ answer' = lower(action)
    /\ console' = "Invalid input"
    /\ UNCHANGED deckVars
    /\ UNCHANGED <<player_hand, dealer_hand, balance, bet_amount, pc, result,
                   player_result, dealer_result>>
    /\ UNCHANGED <<rounds, balance_before, payments>>
    /\ UNCHANGED deckObs
    /\ UNCHANGED handObs
    /\ UNCHANGED bet_input

\* a dealer that also draws at 17
DealerDraw_At17 ==
    /\ pc = "DealerTurn"
    /\ calculate_score(dealer_hand) <= 17
    /\ \E top \in RefillTops :
         /\ dealer_hand' = Append(dealer_hand, Drawn(cards, num_decks, top))
         /\ cards' = AfterDraw(cards, num_decks, top)
    /\ UNCHANGED <<num_decks, player_hand, balance, bet_amount, pc, result,
                   player_result, dealer_result, console>>
    /\ UNCHANGED gameObs
    /\ UNCHANGED deckObs
    /\ UNCHANGED handObs
    /\ UNCHANGED answer
    /\ UNCHANGED bet_input

\* _dealer_turn, lines 192-193: one pass of the loop
DealerDraw ==
    /\ pc = "DealerTurn"
    /\ calculate_score(dealer_hand) < 17
    /\ \E top \in RefillTops :
         /\ dealer_hand' = Append(dealer_hand, Drawn(cards, num_decks, top))
         /\ cards' = AfterDraw(cards, num_decks, top)
    /\ UNCHANGED <<num_decks, player_hand, balance, bet_amount, pc, result,
                   player_result, dealer_result, console>>
    /\ UNCHANGED gameObs
    /\ UNCHANGED deckObs
    /\ UNCHANGED handObs
    /\ UNCHANGED answer
    /\ UNCHANGED bet_input

\* a dealer bust paid with the multiplier of a natural
DealerStop_Pays25 ==
    /\ pc = "DealerTurn"
    /\ ~(calculate_score(dealer_hand) < 17)
    /\ IF calculate_score(dealer_hand) > 21
       THEN /\ dealer_result' = "Bust"
            /\ balance' = float_add(balance, winnings(bet_amount, 5))
            /\ payments' = payments + 1
            /\ result' = "Win"
            /\ pc' = "Done"
       ELSE /\ dealer_result' = "Stand"
            /\ pc' = "Resolution"
            /\ UNCHANGED <<balance, payments, result>>
    /\ UNCHANGED deckVars
    /\ UNCHANGED <<player_hand, dealer_hand, bet_amount, player_result, console>>
    /\ UNCHANGED <<rounds, balance_before, prompts, invalid>>
    /\ UNCHANGED deckObs
    /\ UNCHANGED handObs
    /\ UNCHANGED answer
    /\ UNCHANGED bet_input

\* a dealer that leaves its loop only above 17
DealerStop_Above17 ==
    /\ pc = "DealerTurn"
    /\ calculate_score(dealer_hand) > 17
    /\ IF calculate_score(dealer_hand) > 21
       THEN /\ dealer_result' = "Bust"
            /\ balance' = float_add(balance, winnings(bet_amount, 4))
            /\ payments' = payments + 1
            /\ result' = "Win"
            /\ pc' = "Done"
       ELSE /\ dealer_result' = "Stand"
            /\ pc' = "Resolution"
            /\ UNCHANGED <<balance, payments, result>>
    /\ UNCHANGED deckVars
    /\ UNCHANGED <<player_hand, dealer_hand, bet_amount, player_result, console>>
    /\ UNCHANGED <<rounds, balance_before, prompts, invalid>>
    /\ UNCHANGED deckObs
    /\ UNCHANGED handObs
    /\ UNCHANGED answer
    /\ UNCHANGED bet_input

\* _dealer_turn, lines 195-197, and play_round, lines 158-160
DealerStop ==
    /\ pc = "DealerTurn"
    /\ ~(calculate_score(dealer_hand) < 17)
    /\ IF calculate_score(dealer_hand) > 21
       THEN /\ dealer_result' = "Bust"
            /\ balance' = float_add(balance, winnings(bet_amount, 4))
            /\ payments' = payments + 1
            /\ result' = "Win"
            /\ pc' = "Done"
       ELSE /\ dealer_result' = "Stand"
            /\ pc' = "Resolution"
            /\ UNCHANGED <<balance, payments, result>>
    /\ UNCHANGED deckVars
    /\ UNCHANGED <<player_hand, dealer_hand, bet_amount, player_result, console>>
    /\ UNCHANGED <<rounds, balance_before, prompts, invalid>>
    /\ UNCHANGED deckObs
    /\ UNCHANGED handObs
    /\ UNCHANGED answer
    /\ UNCHANGED bet_input

\* a comparison that gives a tie to the player
CompareHands_TieWins ==
    /\ pc = "Resolution"
    /\ LET player_score == calculate_score(player_hand)
           dealer_score == calculate_score(dealer_hand)
       IN IF player_score >= dealer_score
          THEN /\ balance' = float_add(balance, winnings(bet_amount, 4))
               /\ result' = "Win"
          ELSE IF player_score < dealer_score
          THEN /\ balance' = balance
               /\ result' = "Lose"
          ELSE /\ balance' = float_add(balance, bet_amount)
               /\ result' = "Push"
    /\ payments' = IF balance' # balance THEN payments + 1 ELSE payments
    /\ pc' = "Done"
    /\ UNCHANGED deckVars
    /\ UNCHANGED <<player_hand, dealer_hand, bet_amount, player_result,
                   dealer_result, console>>
    /\ UNCHANGED <<rounds, balance_before, prompts, invalid>>
    /\ UNCHANGED deckObs
    /\ UNCHANGED handObs
    /\ UNCHANGED answer
    /\ UNCHANGED bet_input

\* _compare_hands
CompareHands ==
    /\ pc = "Resolution"
    /\ LET player_score == calculate_score(player_hand)
           dealer_score == calculate_score(dealer_hand)
       IN IF player_score > dealer_score
          THEN /\ balance' = float_add(balance, winnings(bet_amount, 4))
               /\ result' = "Win"
          ELSE IF player_score < dealer_score
          THEN /\ balance' = balance
               /\ result' = "Lose"
          ELSE /\ balance' = float_add(balance, bet_amount)
               /\ result' = "Push"
    /\ payments' = IF balance' # balance THEN payments + 1 ELSE payments
    /\ pc' = "Done"
    /\ UNCHANGED deckVars
    /\ UNCHANGED <<player_hand, dealer_hand, bet_amount, player_result,
                   dealer_result, console>>
    /\ UNCHANGED <<rounds, balance_before, prompts, invalid>>
    /\ UNCHANGED deckObs
    /\ UNCHANGED handObs
    /\ UNCHANGED answer
    /\ UNCHANGED bet_input

Next ==
    \/ \E amount \in BetAmounts : PlayRound(amount)
    \/ DealCard
    \/ CheckBlackjack
    \/ PlayerAt21
    \/ \E action \in Answers : PlayerHit(action)
    \/ \E action \in Answers : PlayerStand(action)
    \/ \E action \in Answers : PlayerInvalid(action)
    \/ DealerDraw
    \/ DealerStop
    \/ CompareHands

Spec == Init /\ [][Next]_vars

(***************************************************************************)
(* The rounds of a used BlackjackGame: the shoe is nearly empty, so that     *)
(* draw_card refills it within the round; every step of play_round is taken  *)
(* and the player eventually gives a valid answer                            *)
(***************************************************************************)
\* a BlackjackGame that played all rounds but one and whose deck has ShoeLeft
\* cards left, those a shuffle put at the bottom of the list
InitShoe ==
    /\ num_decks = DefaultNumDecks
    /\ \E left \in ShoeLeft : cards = SubSeq(OrderedDeck(DefaultNumDecks), 1, left)
    /\ player_hand = <<>>
    /\ dealer_hand = <<>>
    /\ balance = DefaultBalance
    /\ bet_amount = 0
    /\ pc = "Idle"
    /\ result = ""
    /\ player_result = ""
    /\ dealer_result = ""
    /\ console = ""
    /\ answer = NoAnswer
    /\ rounds = MaxRounds - 1
    /\ balance_before = DefaultBalance
    /\ payments = 0
    /\ prompts = 0
    /\ invalid = 0
    /\ draws = 0
    /\ returned = NoneReturned
    /\ refills = 0
    /\ score = -1
    /\ blackjack = ""
    /\ bet_input = ""

\* a step of a running play_round other than an invalid answer
RoundStep ==
    \/ DealCard
    \/ CheckBlackjack
    \/ PlayerAt21
    \/ \E action \in Answers : PlayerHit(action) \/ PlayerStand(action)
    \/ DealerDraw
    \/ DealerStop
    \/ CompareHands

\* the statements of play_round run one after the other without waiting, and
\* input() returns a valid choice eventually
RoundFairness == WF_vars(RoundStep)

SpecLive == InitShoe /\ [][Next]_vars /\ RoundFairness


(***************************************************************************)
(* main: the session loop; every round is played on a new BlackjackGame     *)
(***************************************************************************)
\* texts typed at the "Enter bet amount (or 0 to quit)" prompt
BetInputs == {"abc", "nan", "0", "-6", "10", "2000"}

\* the texts float() raises ValueError on
ValueErrors == {"abc"}

\* float(text) of the other texts
float(text) ==
    CASE text = "nan" -> NaN
      [] text = "0" -> 0
      [] text = "-6" -> -6
      [] text = "10" -> 10
      [] text = "2000" -> 2000

\* the shuffles of the decks of main's games: those that deal a ten to the
\* player and to the dealer first and vary in the three draws after them
MainTops ==
    {top \in Tops(DefaultNumDecks) :
        top[1] = 10 /\ top[2] = 10 /\ \A j \in 6..TopLen : top[j] = 10}

\* main, lines 242-243: the player is set up, no game exists yet
InitMain ==
    /\ num_decks = DefaultNumDecks
    /\ cards = <<>>
    /\ player_hand = <<>>
    /\ dealer_hand = <<>>
    /\ balance = DefaultBalance
    /\ bet_amount = 0
    /\ pc = "Idle"
    /\ result = ""
    /\ player_result = ""
    /\ dealer_result = ""
    /\ console = ""
    /\ answer = NoAnswer
    /\ rounds = 0
    /\ balance_before = DefaultBalance
    /\ payments = 0
    /\ prompts = 0
    /\ invalid = 0
    /\ draws = 0
    /\ returned = NoneReturned
    /\ refills = 0
    /\ score = -1
    /\ blackjack = ""
    /\ bet_input = ""

\* main, lines 251 and 270-271: a text that is no number
MainValueError(text) ==
    /\ pc \in {"Idle", "Done"}
    /\ text \in ValueErrors
    /\ bet_input' = text
    /\ console' = "Please enter a valid number."
    /\ UNCHANGED deckVars
    /\ UNCHANGED <<player_hand, dealer_hand, balance, bet_amount, pc, result,
                   player_result, dealer_result, answer>>
    /\ UNCHANGED gameObs
    /\ UNCHANGED deckObs
    /\ UNCHANGED handObs

\* main, lines 254-255: the bet 0 leaves the loop
MainQuit(text) ==
    /\ pc \in {"Idle", "Done"}
    /\ text \notin ValueErrors
    /\ float_eq(float(text), 0)
    /\ bet_input' = text
    /\ pc' = "Quit"
    /\ console' = "Thanks for playing!"
    /\ UNCHANGED deckVars
    /\ UNCHANGED <<player_hand, dealer_hand, balance, bet_amount, result,
                   player_result, dealer_result, answer>>
    /\ UNCHANGED gameObs
    /\ UNCHANGED deckObs
    /\ UNCHANGED handObs

\* main, lines 258-260: the bet is refused and asked for again
MainInvalidBet(text) ==
    /\ pc \in {"Idle", "Done"}
    /\ text \notin ValueErrors
    /\ ~float_eq(float(text), 0)
    /\ float_le(float(text), 0) \/ float_gt(float(text), balance)
    /\ bet_input' = text
    /\ console' = "Invalid bet amount. Please try again."
    /\ UNCHANGED deckVars
    /\ UNCHANGED <<player_hand, dealer_hand, balance, bet_amount, pc, result,
                   player_result, dealer_result, answer>>
    /\ UNCHANGED gameObs
    /\ UNCHANGED deckObs
    /\ UNCHANGED handObs

\* main, lines 263-264: a new BlackjackGame, with a new shuffled Deck, and the
\* start of its play_round(bet), lines 131-137
MainPlay(text) ==
    /\ pc \in {"Idle", "Done"}
    /\ text \notin ValueErrors
    /\ ~float_eq(float(text), 0)
    /\ ~(float_le(float(text), 0) \/ float_gt(float(text), balance))
    /\ rounds < MaxRounds
    /\ bet_input' = text
    /\ num_decks' = DefaultNumDecks
    /\ \E top \in MainTops : cards' = reset(DefaultNumDecks, top)
    /\ rounds' = rounds + 1
    /\ player_hand' = <<>>
    /\ dealer_hand' = <<>>
    /\ bet_amount' = float(text)
    /\ balance_before' = balance
    /\ balance' = bet_balance(float(text), balance)
    /\ IF bet_ok(float(text), balance)
       THEN pc' = "Dealing" /\ result' = ""
       ELSE pc' = "Done" /\ result' = "Insufficient funds"
    /\ player_result' = ""
    /\ dealer_result' = ""
    /\ console' = ""
    /\ answer' = NoAnswer
    /\ payments' = 0
    /\ prompts' = 0
    /\ invalid' = 0
    /\ UNCHANGED deckObs
    /\ UNCHANGED handObs

NextMain ==
    \/ \E text \in BetInputs : MainValueError(text)
    \/ \E text \in BetInputs : MainQuit(text)
    \/ \E text \in BetInputs : MainInvalidBet(text)
    \/ \E text \in BetInputs : MainPlay(text)
    \/ DealCard
    \/ CheckBlackjack
    \/ PlayerAt21
    \/ \E action \in Answers : PlayerHit(action)
    \/ \E action \in Answers : PlayerStand(action)
    \/ \E action \in Answers : PlayerInvalid(action)
    \/ DealerDraw
    \/ DealerStop
    \/ CompareHands

SpecMain == InitMain /\ [][NextMain]_vars

(***************************************************************************)
(* The deck specification: a Deck(num_decks) and the draw_card calls on it *)
(***************************************************************************)
\* Deck.__init__ with num_decks in 1..MaxDecks
InitDeck ==
    /\ num_decks \in 1..MaxDecks
    /\ \E top \in Tops(num_decks) : cards = reset(num_decks, top)
    /\ player_hand = <<>>
    /\ dealer_hand = <<>>
    /\ balance = DefaultBalance
    /\ bet_amount = 0
    /\ pc = "Idle"
    /\ result = ""
    /\ player_result = ""
    /\ dealer_result = ""
    /\ console = ""
    /\ answer = NoAnswer
    /\ rounds = 0
    /\ balance_before = DefaultBalance
    /\ payments = 0
    /\ prompts = 0
    /\ invalid = 0
    /\ draws = 0
    /\ returned = NoneReturned
    /\ refills = 0
    /\ score = -1
    /\ blackjack = ""
    /\ bet_input = ""

\* Deck.draw_card, called on the deck alone
DeckDraw ==
    /\ draws < 52 * num_decks + MaxExtraDraws
    /\ \E top \in RefillTops :
         /\ cards' = AfterDraw(cards, num_decks, top)
         /\ returned' = [returned EXCEPT ![Drawn(cards, num_decks, top)] = @ + 1]
         /\ refills' = IF DrawFrom(cards, num_decks, top) # cards
                       THEN refills + 1 ELSE refills
    /\ draws' = draws + 1
    /\ UNCHANGED num_decks
    /\ UNCHANGED gameVars
    /\ UNCHANGED gameObs
    /\ UNCHANGED handObs
    /\ UNCHANGED bet_input

NextDeck == DeckDraw

SpecDeck == InitDeck /\ [][NextDeck]_vars

(***************************************************************************)
(* The hand specification: a Hand, the cards added to it and its score     *)
(***************************************************************************)
\* Hand.__init__: an empty hand, no deck
InitHand ==
    /\ num_decks = DefaultNumDecks
    /\ cards = <<>>
    /\ player_hand = <<>>
    /\ dealer_hand = <<>>
    /\ balance = DefaultBalance
    /\ bet_amount = 0
    /\ pc = "Idle"
    /\ result = ""
    /\ player_result = ""
    /\ dealer_result = ""
    /\ console = ""
    /\ answer = NoAnswer
    /\ rounds = 0
    /\ balance_before = DefaultBalance
    /\ payments = 0
    /\ prompts = 0
    /\ invalid = 0
    /\ draws = 0
    /\ returned = NoneReturned
    /\ refills = 0
    /\ score = -1
    /\ blackjack = ""
    /\ bet_input = ""

\* Hand.add_card
add_card(card) ==
    /\ Len(player_hand) < MaxHandLen
    /\ player_hand' = Append(player_hand, card)
    /\ score' = -1
    /\ blackjack' = ""
    /\ UNCHANGED deckVars
    /\ UNCHANGED <<dealer_hand, balance, bet_amount, pc, result, player_result,
                   dealer_result, console, answer>>
    /\ UNCHANGED gameObs
    /\ UNCHANGED deckObs
    /\ UNCHANGED bet_input

\* a call of Hand.calculate_score and of Hand.is_blackjack
Score ==
    /\ score = -1
    /\ score' = calculate_score(player_hand)
    /\ blackjack' = IF is_blackjack(player_hand) THEN "True" ELSE "False"
    /\ UNCHANGED deckVars
    /\ UNCHANGED gameVars
    /\ UNCHANGED gameObs
    /\ UNCHANGED deckObs
    /\ UNCHANGED bet_input

NextHand ==
    \/ \E r \in HandRanks : add_card(Card(r, CardSuit[1]))
    \/ Score

SpecHand == InitHand /\ [][NextHand]_vars

(***************************************************************************)
(* Properties                                                              *)
(***************************************************************************)
\* a round whose bet was accepted has ended
RoundEnded == pc = "Done" /\ result # "Insufficient funds"

\* C1: when both two-card hands are natural Blackjacks after the initial deal,
\* the round ends with "Push" and the balance is the one before play_round.
C1_BothNaturalsRefund ==
    (/\ RoundEnded
     /\ is_blackjack(player_hand)
     /\ is_blackjack(dealer_hand))
    => (result = "Push" /\ balance = balance_before)

\* the number of aces of a hand
NumAces(hand) == Len(SelectSeq(hand, LAMBDA card : card.rank = 1))

\* the rule of the claim C2: every ace counts 11, then 10 is taken off per ace
\* until the total is at most 21 or no ace is left
RECURSIVE Demote(_, _)
Demote(total, k) ==
    IF total <= 21 \/ k = 0 THEN total ELSE Demote(total - 10, k - 1)

ClosedForm(hand) == Demote(SumValues(hand), NumAces(hand))

\* C2: calculate_score is above 21 only when the hand with every ace counted
\* as 1 is above 21, and it equals the closed-form rule.
C2_AcesDemotedAsNeeded ==
    score # -1 =>
        /\ (score > 21 => SumValues(player_hand) - 10 * NumAces(player_hand) > 21)
        /\ score = ClosedForm(player_hand)

\* C3: a step of the round taken when the player holds a natural and the dealer
\* does not ends the round with "Win": the hands keep their two cards, no
\* player turn and no dealer turn ran, and the balance is the one before the
\* round plus 1.5 times the bet.
C3_NaturalPays ==
    [][(/\ pc = "Dealing"
        /\ Len(dealer_hand) = 2
        /\ is_blackjack(player_hand)
        /\ ~is_blackjack(dealer_hand))
       => (/\ pc' = "Done"
           /\ result' = "Win"
           /\ player_hand' = player_hand /\ Len(player_hand') = 2
           /\ dealer_hand' = dealer_hand /\ Len(dealer_hand') = 2
           /\ player_result' = "" /\ dealer_result' = "" /\ prompts' = 0
           /\ 2 * balance' = 2 * balance_before + 3 * bet_amount)]_vars

C3_Witness ==
    /\ RoundEnded
    /\ result = "Win"
    /\ is_blackjack(player_hand)
    /\ ~is_blackjack(dealer_hand)
    /\ bet_amount > 0
    /\ balance = balance_before + 15

\* C4: a hit that brings the player above 21 ends the round with "Lose": the
\* dealer keeps its two initial cards and has had no turn, nothing is paid and
\* the balance is the one before the round minus the bet; this is still so in
\* every state of the ended round.
C4_BustLoses ==
    /\ [][(/\ pc = "PlayerTurn"
           /\ player_hand' # player_hand
           /\ calculate_score(player_hand') > 21)
          => (/\ pc' = "Done"
              /\ result' = "Lose"
              /\ player_result' = "Bust")]_vars
    /\ [](pc = "Done" /\ player_result = "Bust"
          => (/\ result = "Lose"
              /\ calculate_score(player_hand) > 21
              /\ Len(dealer_hand) = 2
              /\ dealer_result = ""
              /\ payments = 0
              /\ balance = balance_before - bet_amount))

C4_Witness ==
    /\ pc = "Done"
    /\ player_result = "Bust"
    /\ Len(player_hand) = 3
    /\ calculate_score(player_hand) > 21
    /\ balance = balance_before - 10

\* C5: when the player has stood with at most 21 and the dealer's turn ends
\* above 21, play_round returns "Win" after one payment and the balance is the
\* one before the round plus the bet.
C5_DealerBustPays ==
    (/\ RoundEnded
     /\ player_result = "Stand"
     /\ calculate_score(dealer_hand) > 21)
    => (/\ result = "Win"
        /\ dealer_result = "Bust"
        /\ calculate_score(player_hand) <= 21
        /\ payments = 1
        /\ balance = balance_before + bet_amount)

C5_Witness ==
    /\ RoundEnded
    /\ player_result = "Stand"
    /\ dealer_result = "Bust"
    /\ calculate_score(dealer_hand) > 21
    /\ Len(dealer_hand) >= 3
    /\ balance = balance_before + 10

\* C6: Resolution is reached with both scores at most 21, and the round it ends
\* is settled by the comparison: player higher is "Win" and plus the bet, dealer
\* higher is "Lose" and minus the bet, equal is "Push" and no change.
C6_ResolutionByComparison ==
    LET player_score == calculate_score(player_hand)
        dealer_score == calculate_score(dealer_hand)
    IN /\ pc = "Resolution"
          => (/\ player_result = "Stand" /\ dealer_result = "Stand"
              /\ player_score <= 21 /\ dealer_score <= 21)
       /\ (RoundEnded /\ dealer_result = "Stand")
          => (/\ player_score > dealer_score
                 => (result = "Win" /\ balance = balance_before + bet_amount)
              /\ player_score < dealer_score
                 => (result = "Lose" /\ balance = balance_before - bet_amount)
              /\ player_score = dealer_score
                 => (result = "Push" /\ balance = balance_before))

C6_Witness ==
    /\ RoundEnded
    /\ dealer_result = "Stand"
    /\ result = "Push"
    /\ calculate_score(player_hand) = calculate_score(dealer_hand)
    /\ bet_amount > 0
    /\ rounds = 1

\* C7: a play_round call with a bet above the balance returns "Insufficient
\* funds" with the deck and the balance unchanged and both hands empty.
C7_InsufficientFunds ==
    [][(rounds' = rounds + 1 /\ bet_amount' > balance)
       => (/\ pc' = "Done"
           /\ result' = "Insufficient funds"
           /\ cards' = cards
           /\ player_hand' = <<>>
           /\ dealer_hand' = <<>>
           /\ balance' = balance)]_vars

C7_Witness ==
    /\ pc = "Done"
    /\ result = "Insufficient funds"
    /\ bet_amount > balance
    /\ player_hand = <<>>
    /\ dealer_hand = <<>>

\* C8: in its turn the dealer draws only at a score below 17 and leaves the turn
\* at the first score of at least 17 without drawing; after the turn the
\* dealer's score is at least 17 and the turn reported "Bust" exactly when the
\* score is above 21.
C8_DealerDrawsTo17 ==
    /\ [][pc = "DealerTurn"
          => IF calculate_score(dealer_hand) < 17
             THEN /\ pc' = "DealerTurn"
                  /\ Len(dealer_hand') = Len(dealer_hand) + 1
                  /\ dealer_result' = ""
             ELSE /\ pc' # "DealerTurn"
                  /\ dealer_hand' = dealer_hand
                  /\ dealer_result' # ""]_vars
    /\ [](dealer_result # ""
          => (/\ calculate_score(dealer_hand) >= 17
              /\ dealer_result = "Bust" <=> calculate_score(dealer_hand) > 21))

C8_Witness ==
    /\ dealer_result = "Stand"
    /\ Len(dealer_hand) >= 3
    /\ calculate_score(dealer_hand) >= 17

\* C9: a step of the player's turn taken at a score of exactly 21 is the
\* implicit Stand, with no answer read; and the player's hand never receives a
\* card in a state where its score is 21 or more.
C9_NoHitAt21 ==
    /\ [][(pc = "PlayerTurn" /\ calculate_score(player_hand) = 21)
          => (/\ pc' = "DealerTurn"
              /\ player_result' = "Stand"
              /\ prompts' = prompts
              /\ player_hand' = player_hand)]_vars
    /\ [][Len(player_hand') > Len(player_hand)
          => calculate_score(player_hand) < 21]_vars

C9_Witness ==
    /\ pc = "DealerTurn"
    /\ player_result = "Stand"
    /\ calculate_score(player_hand) = 21
    /\ Len(player_hand) >= 3
    /\ prompts = Len(player_hand) - 2

\* number of cards in deck equal to card
CountCard(deck, card) == Len(SelectSeq(deck, LAMBDA c : c = card))

\* C10: a Deck of n decks serves its first 52n draws without a refill and they
\* return every (rank, suit) pair n times; the next draw refills the deck once
\* with the full 52n cards and returns one of them, leaving 52n - 1; no draw
\* fails.
C10_DeckDraws ==
    LET n == num_decks
    IN /\ returned[NoCard] = 0
       /\ draws <= 52 * n => (refills = 0 /\ Len(cards) = 52 * n - draws)
       /\ draws = 52 * n => \A c \in AllCards : returned[c] = n
       /\ draws = 52 * n + 1
          => (/\ refills = 1
              /\ Len(cards) = 52 * n - 1
              /\ \A c \in AllCards : CountCard(cards, c) + returned[c] = 2 * n)

C10_Witness ==
    /\ draws = 52 * num_decks + 1
    /\ refills = 1
    /\ Len(cards) = 52 * num_decks - 1

\* C11: is_blackjack is true exactly for a hand of two cards that scores 21,
\* which is one Ace with one card of rank 10 to 13; a hand of three or more
\* cards that scores 21 is not a Blackjack.
C11_BlackjackIsTwoCard21 ==
    blackjack # "" =>
        LET n == Len(player_hand)
        IN /\ blackjack = "True" <=> (n = 2 /\ score = 21)
           /\ blackjack = "True"
              <=> (/\ n = 2
                   /\ \E i \in 1..2 : /\ player_hand[i].rank = 1
                                      /\ player_hand[3 - i].rank \in 10..13)
           /\ (n >= 3 /\ score = 21) => blackjack = "False"

C11_Witness ==
    /\ blackjack = "False"
    /\ Len(player_hand) = 3
    /\ score = 21

\* the choices _player_turn accepts
ValidChoices == {"h", "hit", "s", "stand"}

\* C12: a step of the player's turn that reads an answer which, lowered, is none
\* of h, hit, s, stand changes neither hand, nor the deck, nor the balance; the
\* round stays in the player's turn with no result, and the hand being the
\* same (not 21) the choice is offered again.
C12_InvalidAnswerNoTransition ==
    [][(/\ pc = "PlayerTurn"
        /\ prompts' = prompts + 1
        /\ answer' # NoAnswer
        /\ answer' \notin ValidChoices)
       => (/\ player_hand' = player_hand
           /\ dealer_hand' = dealer_hand
           /\ cards' = cards
           /\ balance' = balance
           /\ pc' = "PlayerTurn"
           /\ result' = "" /\ player_result' = "" /\ dealer_result' = ""
           /\ calculate_score(player_hand') # 21)]_vars

C12_Witness ==
    /\ pc = "PlayerTurn"
    /\ answer = "x"
    /\ console = "Invalid input"
    /\ Len(player_hand) = 3
    /\ prompts = 2

\* the permutations of a set, as sequences
RECURSIVE PermsOf(_)
PermsOf(S) ==
    IF S = {} THEN {<<>>}
    ELSE UNION {{<<x>> \o p : p \in PermsOf(S \ {x})} : x \in S}

\* C20: calculate_score and is_blackjack give the same value for a hand and for
\* every permutation of its cards.
C20_OrderIndependent ==
    score # -1 =>
        \A p \in PermsOf(1..Len(player_hand)) :
            LET permuted == [i \in 1..Len(player_hand) |-> player_hand[p[i]]]
            IN /\ calculate_score(permuted) = score
               /\ is_blackjack(permuted) <=> blackjack = "True"

C20_Witness ==
    /\ score = 16
    /\ Len(player_hand) = 3
    /\ player_hand[1].rank = 1
    /\ player_hand[2].rank = 10
    /\ player_hand[3].rank = 5

\* C14: a round in which the dealer's two initial cards are a natural and the
\* player, without a natural, reaches 21 with three or more cards is not
\* settled as a Push.
C14_NaturalBeatsOrdinary21 ==
    (/\ RoundEnded
     /\ is_blackjack(dealer_hand)
     /\ Len(player_hand) >= 3
     /\ calculate_score(player_hand) = 21)
    => result # "Push"

\* the place of a phase in the order of play_round
PhaseRank(phase) ==
    CASE phase = "Idle" -> 0
      [] phase = "Dealing" -> 1
      [] phase = "PlayerTurn" -> 2
      [] phase = "DealerTurn" -> 3
      [] phase = "Resolution" -> 4
      [] phase = "Done" -> 5
      [] phase = "Quit" -> 6

\* C16: within one play_round the phase never goes back in the order Dealing,
\* PlayerTurn, DealerTurn, Resolution, Done; the initial deal alternates, player
\* first, up to two cards each; the dealer gets a further card only in its
\* turn, after the player's Stand; and from the dealer's turn on the player's
\* hand does not change until the next play_round.
C16_PhaseOrder ==
    /\ [][rounds' = rounds => PhaseRank(pc') >= PhaseRank(pc)]_vars
    /\ [](pc = "Dealing"
          => (/\ Len(dealer_hand) <= 2
              /\ Len(player_hand) - Len(dealer_hand) \in {0, 1}))
    /\ [](pc = "PlayerTurn" => Len(dealer_hand) = 2)
    /\ [][(Len(dealer_hand) >= 2 /\ dealer_hand' # dealer_hand /\ rounds' = rounds)
          => (/\ pc = "DealerTurn" /\ pc' = "DealerTurn"
              /\ player_result = "Stand"
              /\ Len(dealer_hand') = Len(dealer_hand) + 1)]_vars
    /\ [][(PhaseRank(pc) >= 3 /\ rounds' = rounds)
          => player_hand' = player_hand]_vars

C16_Witness ==
    /\ pc = "Done"
    /\ player_result = "Stand"
    /\ dealer_result = "Stand"
    /\ Len(player_hand) = 2
    /\ Len(dealer_hand) = 3
    /\ result = "Win"

\* C17 as claimed: a play_round that returns "Insufficient funds" leaves the
\* balance, the deck and both hands as they were before the call.
C17_AbortMutatesNothing ==
    [][(rounds' = rounds + 1 /\ result' = "Insufficient funds")
       => (/\ balance' = balance
           /\ cards' = cards
           /\ player_hand' = player_hand
           /\ dealer_hand' = dealer_hand)]_vars

\* C17 amended: a play_round that returns "Insufficient funds" leaves the balance
\* and the deck as they were and leaves both hands empty, so the hands are as
\* before the call exactly when they were empty before it.
C17_AbortClearsHands ==
    [][(rounds' = rounds + 1 /\ result' = "Insufficient funds")
       => (/\ balance' = balance
           /\ cards' = cards /\ num_decks' = num_decks
           /\ player_hand' = <<>>
           /\ dealer_hand' = <<>>
           /\ (player_hand' = player_hand /\ dealer_hand' = dealer_hand)
              <=> (player_hand = <<>> /\ dealer_hand = <<>>))]_vars

C17_Witness ==
    /\ pc = "Done"
    /\ result = "Insufficient funds"
    /\ rounds = 2
    /\ Len(cards) < 52 * num_decks
    /\ player_hand = <<>>
    /\ dealer_hand = <<>>

\* C19: in every state of a round between the accepted bet and the settlement
\* (Dealing, PlayerTurn, DealerTurn, Resolution) the balance is the balance
\* before play_round minus the bet; the balance changes only at the bet and at
\* one settlement step, which ends the round.
C19_DebitedBeforeOutcome ==
    /\ [](PhaseRank(pc) \in 1..4
          => (balance = balance_before - bet_amount /\ payments = 0))
    /\ [](payments <= 1)
    /\ [][balance' # balance
          => \/ (rounds' = rounds + 1 /\ balance' = balance - bet_amount')
             \/ (/\ rounds' = rounds
                 /\ PhaseRank(pc) \in 1..4 /\ pc' = "Done"
                 /\ payments = 0 /\ payments' = 1)]_vars

C19_Witness ==
    /\ pc = "DealerTurn"
    /\ Len(dealer_hand) = 3
    /\ bet_amount = 10
    /\ balance = balance_before - 10

\* the labels play_round returns
Outcomes == {"Win", "Lose", "Push", "Insufficient funds"}

\* C18: every play_round eventually reaches Done with one of the results Win,
\* Lose, Push, Insufficient funds, when every step of it is taken and the
\* player eventually answers with a valid choice, also when the deck is
\* refilled within the round.
C18_RoundTerminates ==
    /\ (PhaseRank(pc) \in 1..4) ~> (pc = "Done" /\ result \in Outcomes)
    /\ [](pc = "Done" => result \in Outcomes)

C18_Witness ==
    /\ pc = "Done"
    /\ result \in {"Win", "Lose", "Push"}
    /\ Len(player_hand) >= 3
    /\ Len(dealer_hand) >= 3
    /\ Len(cards) > 52 * (DefaultNumDecks - 1)

\* C13: at main's bet prompt a bet that is negative or greater than the balance
\* starts no round, leaves the balance unchanged and leaves main at the prompt;
\* a round is started only with 0 < bet <= balance; only the bet 0 ends the
\* session.
C13_OnlyValidBetsPlay ==
    [][(pc = "Idle" \/ pc = "Done")
       => LET number == bet_input' \notin ValueErrors
              bet == float(bet_input')
              refused == rounds' = rounds /\ balance' = balance /\ pc' = pc
          IN /\ (number /\ (float_gt(0, bet) \/ float_gt(bet, balance))) => refused
             /\ rounds' = rounds + 1
                => (number /\ float_gt(bet, 0) /\ float_le(bet, balance))
             /\ pc' = "Quit" => (number /\ bet = 0)]_vars

\* C15: in every state of a session of main the balance is a number that is
\* not negative.
C15_BalanceNonNegative == float_le(0, balance)

====
